---- MODULE Spec2Model ----
(***************************************************************************)
(* Model of the Civitai downloader plugin: the interactive entry point     *)
(* CivitaiDownloader.download_model (scripts/civitai_downloader.py) and    *)
(* the programmatic entry point POST /civitai/download                     *)
(* (scripts/civitai_api.py).  Text is modelled as a sequence of tokens,    *)
(* the file system as the three paths the code touches (config file,       *)
(* default key file, destination file), the network as a nondeterministic  *)
(* choice of response for each request.                                    *)
(***************************************************************************)
EXTENDS Integers, Sequences, FiniteSets, TLC

VARIABLES apiKey, configFile, defaultKeyFile, disk, pc, req, loc, result, sent, stages,
          store, tape

vars == <<apiKey, configFile, defaultKeyFile, disk, pc, req, loc, result, sent, stages,
          store, tape>>

\* ---------------------------------------------------------------- bounds
NumProcs == 2
MaxChunks == 2
MaxOps == 3

Procs == 1..NumProcs

\* ------------------------------------------------------------------ text
\* Python None, kept distinct from every text value (texts are sequences of
\* one-character or literal tokens).
None == <<"None">>

\* Python truthiness of an Optional[str]
Truthy(s) == s # None /\ s # <<>>

Whitespace == {" ", "\n"}

RECURSIVE LStrip(_)
LStrip(s) == IF s # <<>> /\ Head(s) \in Whitespace THEN LStrip(Tail(s)) ELSE s

RECURSIVE RStrip(_)
RStrip(s) == IF s # <<>> /\ s[Len(s)] \in Whitespace THEN RStrip(SubSeq(s, 1, Len(s) - 1)) ELSE s

\* str.strip()
Strip(s) == RStrip(LStrip(s))

Digits == {"0", "1", "2", "3", "4", "5", "6", "7", "8", "9"}

DigitOf(n) == CASE n = 0 -> "0" [] n = 1 -> "1" [] n = 2 -> "2" [] n = 3 -> "3" [] n = 4 -> "4"
                [] n = 5 -> "5" [] n = 6 -> "6" [] n = 7 -> "7" [] n = 8 -> "8" [] n = 9 -> "9"

ValueOf(d) == CHOOSE n \in 0..9 : DigitOf(n) = d

\* str(n) of a non-negative integer
RECURSIVE Str(_)
Str(n) == IF n < 10 THEN <<DigitOf(n)>> ELSE Str(n \div 10) \o <<DigitOf(n % 10)>>

IsNumeral(s) == s # <<>> /\ s # None /\ \A i \in 1..Len(s) : s[i] \in Digits

\* int(s) of a numeral
RECURSIVE Int_(_)
Int_(s) == IF Len(s) = 1 THEN ValueOf(s[1]) ELSE 10 * Int_(SubSeq(s, 1, Len(s) - 1)) + ValueOf(s[Len(s)])

\* the longest run of digits of s that starts at position i: (\d+)
RECURSIVE DigitRun(_, _)
DigitRun(s, i) == IF i <= Len(s) /\ s[i] \in Digits THEN <<s[i]>> \o DigitRun(s, i + 1) ELSE <<>>

\* re.search(lit + r'(\d+)', s).group(1), None when there is no match
ReSearch(lit, s) ==
  LET pos == {i \in 1..Len(s) : s[i] = lit /\ DigitRun(s, i + 1) # <<>>}
  IN IF pos = {} THEN None
     ELSE DigitRun(s, (CHOOSE i \in pos : \A j \in pos : i <= j) + 1)

VersionParam == "modelVersionId="
ModelPath == "civitai.com/models/"

\* ----------------------------------------------------------- config store
NoFile == [exists |-> FALSE, data |-> <<>>]

\* json.dump({'api_key': api_key}, f) over open(config_file, 'w')
JsonDump(key) == [exists |-> TRUE, data |-> <<<<"api_key", key>>>>]

\* data.get('api_key', '')
JsonGet(data, k, dflt) ==
  LET hit == {i \in 1..Len(data) : data[i][1] = k}
  IN IF hit = {} THEN dflt ELSE data[CHOOSE i \in hit : \A j \in hit : j <= i][2]

\* if os.path.exists(self.config_file): os.remove(self.config_file)
delete_saved_key(cf) == IF cf.exists THEN NoFile ELSE cf

load_api_key(cf) == IF cf.exists THEN JsonGet(cf.data, "api_key", <<>>) ELSE <<>>

\* save_api_key trimming the token it writes
save_api_key_trimmed(key) == JsonDump(Strip(key))

save_api_key(key) == JsonDump(key)

load_default_api_key(df) ==
  IF df.exists /\ Strip(df.text) # <<>> THEN Strip(df.text) ELSE None

\* ------------------------------------------------------------ exceptions
\* Exception classes the handlers name, with the subclass relation of the
\* requests library (RequestException derives from IOError = OSError).
IsInstance(e, cls) ==
  \/ cls = "Exception"
  \/ e = cls
  \/ cls = "OSError" /\ e \in {"Timeout", "ConnectionError", "HTTPError"}

Err(kind, code) == [kind |-> kind, code |-> code]
NoErr == Err("None", 0)
Succeeded == Err("Succeeded", 0)
\* an exception that leaves the entry point
Raised == Err("Raised", 0)

\* --------------------------------------------------------------- registry
\* StatusError with the 403 branch falling into the 401 one
StatusErrorSwapped(status) ==
  CASE status \in {401, 403} -> Err("AuthError", 0)
    [] status = 404 -> Err("NotFoundError", 0)
    [] status = 429 -> Err("RateLimited", 0)
    [] OTHER -> Err("ServerError", status)

\* status branches of get_latest_version_id / get_model_info (identical
\* classification, different wording)
StatusError(status) ==
  CASE status = 401 -> Err("AuthError", 0)
    [] status = 403 -> Err("ForbiddenError", 0)
    [] status = 404 -> Err("NotFoundError", 0)
    [] status = 429 -> Err("RateLimited", 0)
    [] OTHER -> Err("ServerError", status)

\* except clauses of get_latest_version_id / get_model_info
RegistryExcept(e) ==
  IF IsInstance(e, "Timeout") THEN Err("TimeoutError", 0)
  ELSE IF IsInstance(e, "ConnectionError") THEN Err("NetworkError", 0)
  ELSE Err("UnknownError", 0)

\* get_latest_version_id: <<version id, error>> for a response of the
\* model-by-id endpoint
get_latest_version_id(resp) ==
  IF resp.exc # "none" THEN <<None, RegistryExcept(resp.exc)>>
  ELSE IF resp.status = 200
       THEN IF resp.body.present /\ Len(resp.body.list) > 0
            THEN IF resp.body.list[1].hasId
                 THEN <<Str(resp.body.list[1].id), NoErr>>
                 ELSE <<None, RegistryExcept("KeyError")>>
            ELSE <<None, Err("NoVersionsError", 0)>>
       ELSE <<None, StatusError(resp.status)>>

\* get_model_info without the status check
get_model_info_unchecked(resp) ==
  IF resp.exc # "none" THEN <<"none", Err("UnknownError", 0)>>
  ELSE <<"ok", NoErr>>

\* get_model_info: <<metadata, error>> for a response of the
\* version-by-id endpoint
get_model_info(resp) ==
  IF resp.exc # "none" THEN <<"none", RegistryExcept(resp.exc)>>
  ELSE IF resp.status = 200 THEN <<resp.body, NoErr>>
       ELSE <<"none", StatusError(resp.status)>>

\* extract_model_id trying the model path before the version parameter
ExtractPlanPathFirst(url) ==
  IF ~Truthy(url) THEN "invalid"
  ELSE IF ReSearch(ModelPath, url) # None THEN "lookup"
  ELSE IF ReSearch(VersionParam, url) # None THEN "version"
  ELSE "nomatch"

\* what extract_model_id does with a url: fail, take the version parameter,
\* or look the model up
ExtractPlan(url) ==
  IF ~Truthy(url) THEN "invalid"
  ELSE IF ReSearch(VersionParam, url) # None THEN "version"
  ELSE IF ReSearch(ModelPath, url) # None THEN "lookup"
  ELSE "nomatch"

\* the Authorization header of a registry call: headers = {} unless
\* self.api_key is truthy
BearerOf(key) == IF Truthy(key) THEN key ELSE None

\* --------------------------------------------------------------- download
Absent == [exists |-> FALSE, size |-> 0, full |-> FALSE]

\* a handler that forgets the removal
RemoveIfExistsKeep(d) == d

\* if os.path.exists(lora_path): os.remove(lora_path)
RemoveIfExists(d) == IF d.exists THEN Absent ELSE d

\* except clauses of CivitaiDownloader.download_model
UiExcept(e, status) ==
  IF IsInstance(e, "Timeout") THEN Err("TimeoutError", 0)
  ELSE IF IsInstance(e, "ConnectionError") THEN Err("NetworkError", 0)
  ELSE IF IsInstance(e, "HTTPError") THEN Err("ServerError", status)
  ELSE IF IsInstance(e, "OSError") THEN Err("IOError", 0)
  ELSE Err("UnknownError", 0)

\* except clauses of the endpoint; they name requests.exceptions, and
\* requests is a local name of the handler bound by its import statement
ApiExcept(e, bound) ==
  IF ~bound THEN Raised
  ELSE IF IsInstance(e, "Timeout") THEN Err("TimeoutError", 0)
  ELSE IF IsInstance(e, "ConnectionError") THEN Err("NetworkError", 0)
  ELSE Err("UnknownError", 0)

\* early returns on the download response status
DownloadAbort(status) == status \in {401, 403, 404, 429}

\* response.raise_for_status()
RaisesForStatus(status) == status >= 400 /\ status < 600

\* ----------------------------------------------------------------- inputs
LookupBody(present, list) == [present |-> present, list |-> list]
Entry(id) == [hasId |-> TRUE, id |-> id]
EntryNoId == [hasId |-> FALSE, id |-> 0]

LookupResp(exc, status, body) == [exc |-> exc, status |-> status, body |-> body]
InfoResp(exc, status, body) == [exc |-> exc, status |-> status, body |-> body]
DlResp(exc, status, length) == [exc |-> exc, status |-> status, length |-> length]

NoLookup == LookupResp("none", 0, LookupBody(FALSE, <<>>))
NoInfo == InfoResp("none", 0, "none")
NoDl == DlResp("none", 0, None)

Statuses == {200, 206, 304, 401, 403, 404, 429, 500}
NetExc == {"Timeout", "ConnectionError", "ValueError"}

\* everything a request, the registry, the file host and the file system
\* may present to one invocation
World ==
  [eps |-> {"ui", "api"},
   urls |-> {<<>>, <<"x">>, <<VersionParam, "8">>, <<ModelPath, "7">>,
             <<ModelPath, "7", "?", VersionParam, "1", "2">>,
             <<ModelPath, "7", "?", VersionParam>>,
             <<ModelPath, "x", "?", VersionParam>>},
   keys |-> {None, <<" ">>, <<"a">>, <<" ", "b", "\n">>},
   lookup |-> {LookupResp(e, 0, LookupBody(FALSE, <<>>)) : e \in NetExc}
              \cup {LookupResp("none", st, LookupBody(FALSE, <<>>)) : st \in Statuses}
              \cup {LookupResp("none", 200, LookupBody(TRUE, l)) :
                      l \in {<<>>, <<Entry(12), Entry(7)>>, <<EntryNoId>>}},
   info |-> {InfoResp(e, 0, "none") : e \in NetExc}
            \cup {InfoResp("none", st, "none") : st \in Statuses \ {200}}
            \cup {InfoResp("none", 200, b) : b \in {"ok", "nofiles", "nokey"}},
   dl |-> {DlResp(e, 0, None) : e \in NetExc}
          \cup {DlResp("none", st, l) : st \in Statuses, l \in {None, <<"2">>}}
          \cup {DlResp("none", 200, <<"x">>)},
   chunks |-> {0, 1, 2},
   streamexc |-> NetExc,
   fsok |-> BOOLEAN]

\* two invocations racing: the inputs that matter to what they share
SmallWorld ==
  [eps |-> {"ui", "api"},
   urls |-> {<<ModelPath, "7">>},
   keys |-> {None, <<"a">>, <<"b">>},
   lookup |-> {LookupResp("none", 200, LookupBody(TRUE, <<Entry(7)>>))},
   info |-> {InfoResp("none", 200, "ok"), InfoResp("Timeout", 0, "none")},
   dl |-> {DlResp("none", 200, None), DlResp("none", 401, None)},
   chunks |-> {1},
   streamexc |-> {"ConnectionError"},
   fsok |-> {TRUE}]

LocInit ==
  [version_id |-> None, model_info |-> "none", key_resolved |-> None,
   stored_at_start |-> <<>>, lookup |-> NoLookup, info |-> NoInfo, dl |-> NoDl,
   dl_token |-> None, requests_bound |-> FALSE, total_size |-> 0,
   downloaded |-> 0, chunks |-> 0, raised |-> "none",
   progress_val |-> [num |-> 0, den |-> 1]]

ReqInit == [ep |-> "ui", url |-> <<>>, api_key |-> None]

Running(q) == pc[q] \notin {"idle", "done"}

\* the config store used on its own: the operations applied so far and
\* what the last load returned
StoreInit == [ops |-> <<>>, loaded |-> <<>>]

\* what the first of two runs on the same inputs was given, for the second
\* run to be given the same
TapeInit ==
  [urls |-> {}, keys |-> {}, lookup |-> {}, info |-> {}, dl |-> {}, dirok |-> {},
   openok |-> {}, events |-> <<>>, disk0 |-> Absent, config0 |-> NoFile,
   disk1 |-> Absent, handed |-> FALSE]

\* ------------------------------------------------------------------- Init
Init ==
  /\ apiKey = [e \in {"ui", "api"} |-> None]
  /\ configFile \in {NoFile, JsonDump(<<"s">>)}
  /\ defaultKeyFile \in {[exists |-> FALSE, text |-> <<>>],
                         [exists |-> TRUE, text |-> <<" ">>],
                         [exists |-> TRUE, text |-> <<"d", "\n">>]}
  /\ disk \in {Absent, [exists |-> TRUE, size |-> 3, full |-> TRUE]}
  /\ pc = [p \in Procs |-> "idle"]
  /\ req = [p \in Procs |-> ReqInit]
  /\ loc = [p \in Procs |-> LocInit]
  /\ result = [p \in Procs |-> NoErr]
  /\ sent = [p \in Procs |-> <<>>]
  /\ stages = [p \in Procs |-> <<"Idle">>]
  /\ store = StoreInit
  /\ tape = TapeInit

\* terminate invocation p with outcome r
Finish(p, r) ==
  /\ pc' = [pc EXCEPT ![p] = "done"]
  /\ result' = [result EXCEPT ![p] = r]
  /\ stages' = [stages EXCEPT ![p] = Append(@, IF r = Succeeded THEN "Succeeded" ELSE "Failed")]

Goto(p, label) == pc' = [pc EXCEPT ![p] = label] /\ UNCHANGED result

\* an exception inside the try block of the download step
Except(p, e, status) ==
  IF req[p].ep = "ui"
  THEN /\ disk' = RemoveIfExists(disk)
       /\ Finish(p, UiExcept(e, status))
  ELSE /\ disk' = IF loc[p].requests_bound THEN RemoveIfExists(disk) ELSE disk
       /\ Finish(p, ApiExcept(e, loc[p].requests_bound))

\* ---------------------------------------------------------------- actions
\* A request arrives: self.api_key = api_key.strip() if api_key else None.
\* The endpoint is an async handler that never awaits, so a second request
\* to it starts only when the first has returned.
Begin(p, W) ==
  /\ pc[p] = "idle"
  /\ \E e \in W.eps, u \in W.urls, k \in W.keys :
       /\ e = "api" => \A q \in Procs \ {p} : ~(Running(q) /\ req[q].ep = "api")
       /\ req' = [req EXCEPT ![p] = [ep |-> e, url |-> u, api_key |-> k]]
       /\ apiKey' = [apiKey EXCEPT ![e] = IF Truthy(k) THEN Strip(k) ELSE None]
  /\ loc' = [loc EXCEPT ![p] = [LocInit EXCEPT !.stored_at_start = load_api_key(configFile)]]
  /\ pc' = [pc EXCEPT ![p] = "credential"]
  /\ result' = [result EXCEPT ![p] = NoErr]
  /\ sent' = [sent EXCEPT ![p] = <<>>]
  /\ stages' = [stages EXCEPT ![p] = <<"Idle">>]
  /\ UNCHANGED <<configFile, defaultKeyFile, store, tape, disk>>

\* Default key fallback; the interactive entry point then saves the key or
\* deletes the config file.
Credential(p) ==
  /\ pc[p] = "credential"
  /\ LET e == req[p].ep
         dflt == load_default_api_key(defaultKeyFile)
         key == IF ~Truthy(apiKey[e]) /\ Truthy(dflt) THEN dflt ELSE apiKey[e]
     IN /\ apiKey' = [apiKey EXCEPT ![e] = key]
        /\ configFile' = IF e = "ui"
                         THEN IF Truthy(key) THEN save_api_key(key)
                              ELSE delete_saved_key(configFile)
                         ELSE configFile
        /\ loc' = [loc EXCEPT ![p].key_resolved = key]
  /\ Goto(p, "resolve")
  /\ stages' = [stages EXCEPT ![p] = Append(@, "ResolvingReference")]
  /\ UNCHANGED <<defaultKeyFile, store, tape, disk, req, sent>>

Send(p, kind, cred) == sent' = [sent EXCEPT ![p] = Append(@, [req |-> kind, cred |-> cred])]

\* The url check of the interactive entry point and extract_model_id,
\* with the lookup call of get_latest_version_id when the url names a model.
Resolve(p, W) ==
  /\ pc[p] = "resolve"
  /\ LET plan == ExtractPlan(req[p].url)
     IN \/ /\ plan \in {"invalid", "nomatch"}
           /\ Finish(p, Err("InvalidReference", 0))
           /\ UNCHANGED <<loc, sent>>
        \/ /\ plan = "version"
           /\ loc' = [loc EXCEPT ![p].version_id = ReSearch(VersionParam, req[p].url)]
           /\ Goto(p, "fetch")
           /\ stages' = [stages EXCEPT ![p] = Append(@, "FetchingMetadata")]
           /\ UNCHANGED sent
        \/ /\ plan = "lookup"
           /\ \E r \in W.lookup :
                LET out == get_latest_version_id(r)
                IN /\ Send(p, "lookup", BearerOf(apiKey[req[p].ep]))
                   /\ loc' = [loc EXCEPT ![p].lookup = r, ![p].version_id = out[1]]
                   /\ IF out[2] # NoErr
                      THEN Finish(p, out[2])
                      ELSE /\ Goto(p, "fetch")
                           /\ stages' = [stages EXCEPT ![p] = Append(@, "FetchingMetadata")]
  /\ UNCHANGED <<apiKey, configFile, defaultKeyFile, store, tape, disk, req>>

\* get_model_info and the check of its error
Fetch(p, W) ==
  /\ pc[p] = "fetch"
  /\ \E r \in W.info :
       LET out == get_model_info(r)
       IN /\ Send(p, "metadata", BearerOf(apiKey[req[p].ep]))
          /\ loc' = [loc EXCEPT ![p].info = r, ![p].model_info = out[1]]
          /\ IF out[2] # NoErr
             THEN Finish(p, out[2])
             ELSE Goto(p, "prepare") /\ UNCHANGED stages
  /\ UNCHANGED <<apiKey, configFile, defaultKeyFile, store, tape, disk, req>>

\* From the files check to os.makedirs: the first file's downloadUrl and
\* name, the token appended to the url, the destination directory.  In the
\* interactive entry point these lines are outside the try block; in the
\* endpoint they precede the import of requests.
Prepare(p, W) ==
  /\ pc[p] = "prepare"
  /\ \/ /\ loc[p].model_info = "nofiles"
        /\ Finish(p, Err("NoFilesError", 0))
        /\ UNCHANGED <<loc, disk>>
     \/ /\ loc[p].model_info = "nokey"
        /\ UNCHANGED loc
        /\ IF req[p].ep = "ui" THEN Finish(p, Raised) /\ UNCHANGED disk
           ELSE Except(p, "KeyError", 0)
     \/ /\ loc[p].model_info = "ok"
        /\ \E ok \in W.fsok :
             /\ loc' = [loc EXCEPT ![p].dl_token = BearerOf(apiKey[req[p].ep]),
                                   ![p].requests_bound = ok /\ req[p].ep = "api"]
             /\ IF ok
                THEN /\ Goto(p, "request")
                     /\ stages' = [stages EXCEPT ![p] = Append(@, "Downloading")]
                     /\ UNCHANGED disk
                ELSE IF req[p].ep = "ui" THEN Finish(p, Raised) /\ UNCHANGED disk
                     ELSE Except(p, "OSError", 0)
  /\ UNCHANGED <<apiKey, configFile, defaultKeyFile, store, tape, req, sent>>

\* requests.get(download_url, stream=True), the status checks and the
\* content-length header
Request(p, W) ==
  /\ pc[p] = "request"
  /\ \E r \in W.dl :
       /\ Send(p, "download", loc[p].dl_token)
       /\ IF r.exc # "none"
          THEN loc' = [loc EXCEPT ![p].dl = r, ![p].raised = r.exc] /\ Except(p, r.exc, 0)
          ELSE IF DownloadAbort(r.status)
          THEN /\ loc' = [loc EXCEPT ![p].dl = r]
               /\ Finish(p, StatusError(r.status))
               /\ UNCHANGED disk
          ELSE IF req[p].ep = "ui" /\ RaisesForStatus(r.status)
          THEN loc' = [loc EXCEPT ![p].dl = r, ![p].raised = "HTTPError"]
               /\ Except(p, "HTTPError", r.status)
          ELSE IF req[p].ep = "api" /\ r.status # 200
          THEN /\ loc' = [loc EXCEPT ![p].dl = r]
               /\ Finish(p, Err("ServerError", r.status))
               /\ UNCHANGED disk
          ELSE IF r.length # None /\ ~IsNumeral(r.length)
          THEN loc' = [loc EXCEPT ![p].dl = r, ![p].raised = "ValueError"]
               /\ Except(p, "ValueError", 0)
          ELSE /\ loc' = [loc EXCEPT ![p].dl = r,
                                     ![p].total_size = IF r.length = None THEN 0 ELSE Int_(r.length)]
               /\ Goto(p, "open")
               /\ UNCHANGED <<disk, stages>>
  /\ UNCHANGED <<apiKey, configFile, defaultKeyFile, store, tape, req>>

\* with open(lora_path, 'wb') as f
Open(p, W) ==
  /\ pc[p] = "open"
  /\ \E ok \in W.fsok :
       IF ok
       THEN /\ disk' = [exists |-> TRUE, size |-> 0, full |-> FALSE]
            /\ Goto(p, "stream")
            /\ UNCHANGED <<loc, stages>>
       ELSE loc' = [loc EXCEPT ![p].raised = "OSError"] /\ Except(p, "OSError", 0)
  /\ UNCHANGED <<apiKey, configFile, defaultKeyFile, store, tape, req, sent>>

\* progress_val = 0.3 + (downloaded / total_size) * 0.7, as the exact
\* fraction (3 * total_size + 7 * downloaded) / (10 * total_size)
ProgressVal(downloaded, total_size) ==
  [num |-> 3 * total_size + 7 * downloaded, den |-> 10 * total_size]

\* one iteration of the loop over response.iter_content
Chunk(p, W) ==
  /\ pc[p] = "stream"
  /\ loc[p].chunks < MaxChunks
  /\ \E n \in W.chunks, ok \in W.fsok :
       IF n = 0
       THEN /\ ok
            /\ loc' = [loc EXCEPT ![p].chunks = @ + 1]
            /\ Goto(p, "stream")
            /\ UNCHANGED <<disk, stages>>
       ELSE IF ok
       THEN /\ disk' = IF disk.exists THEN [disk EXCEPT !.size = @ + n] ELSE disk
            /\ loc' = [loc EXCEPT ![p].chunks = @ + 1, ![p].downloaded = @ + n,
                                  ![p].progress_val =
                                     IF req[p].ep = "ui" /\ loc[p].total_size > 0
                                     THEN ProgressVal(loc[p].downloaded + n, loc[p].total_size)
                                     ELSE @]
            /\ Goto(p, "stream")
            /\ UNCHANGED stages
       ELSE loc' = [loc EXCEPT ![p].raised = "OSError"] /\ Except(p, "OSError", 0)
  /\ UNCHANGED <<apiKey, configFile, defaultKeyFile, store, tape, req, sent>>

\* iter_content raises while the body is being read
StreamError(p, W) ==
  /\ pc[p] = "stream"
  /\ \E e \in W.streamexc :
       loc' = [loc EXCEPT ![p].raised = e] /\ Except(p, e, 0)
  /\ UNCHANGED <<apiKey, configFile, defaultKeyFile, store, tape, req, sent>>

\* the end of the stream without the size check
EndStreamUnverified(p) ==
  /\ pc[p] = "stream"
  /\ disk' = IF disk.exists THEN [disk EXCEPT !.full = TRUE] ELSE disk
  /\ Finish(p, Succeeded)
  /\ UNCHANGED <<apiKey, configFile, defaultKeyFile, store, tape, req, loc, sent>>

\* The stream ends: the file is closed, an empty file is removed, otherwise
\* success is reported.
EndStream(p) ==
  /\ pc[p] = "stream"
  /\ IF disk.exists /\ disk.size = 0
     THEN disk' = Absent /\ Finish(p, Err("EmptyFileError", 0))
     ELSE /\ disk' = IF disk.exists THEN [disk EXCEPT !.full = TRUE] ELSE disk
          /\ Finish(p, Succeeded)
  /\ UNCHANGED <<apiKey, configFile, defaultKeyFile, store, tape, req, loc, sent>>

\* The entry point has returned its outcome; its locals are gone and the
\* next request may arrive.
Return(p) ==
  /\ pc[p] = "done"
  /\ pc' = [pc EXCEPT ![p] = "idle"]
  /\ req' = [req EXCEPT ![p] = ReqInit]
  /\ loc' = [loc EXCEPT ![p] = LocInit]
  /\ result' = [result EXCEPT ![p] = NoErr]
  /\ sent' = [sent EXCEPT ![p] = <<>>]
  /\ stages' = [stages EXCEPT ![p] = <<"Idle">>]
  /\ UNCHANGED <<apiKey, configFile, defaultKeyFile, store, tape, disk>>

Invocation(p, W) ==
  \/ Begin(p, W)
  \/ Credential(p)
  \/ Resolve(p, W)
  \/ Fetch(p, W)
  \/ Prepare(p, W)
  \/ Request(p, W)
  \/ Open(p, W)
  \/ Chunk(p, W)
  \/ StreamError(p, W)
  \/ EndStream(p)

\* one invocation after another
Next == Invocation(1, World) \/ Return(1)

Spec == Init /\ [][Next]_vars

\* one invocation per thread, on either entry point, running side by side
NextConc == \E p \in Procs : Invocation(p, SmallWorld)

InitConc == Init /\ configFile = NoFile /\ disk = Absent

SpecConc == InitConc /\ [][NextConc]_vars

\* ----------------------------------------------------------- config store
StoreTokens == {<<>>, <<"a">>, <<"a", "b">>, <<" ", "b", "\n">>}

StoreOp(op, token) == [op |-> op, token |-> token]

\* save_api_key(token)
StoreSave ==
  /\ Len(store.ops) < MaxOps
  /\ \E t \in StoreTokens :
       /\ configFile' = save_api_key(t)
       /\ store' = [store EXCEPT !.ops = Append(@, StoreOp("save", t))]
  /\ UNCHANGED <<apiKey, defaultKeyFile, disk, pc, req, loc, result, sent, stages, tape>>

\* the removal of the config file
StoreClear ==
  /\ Len(store.ops) < MaxOps
  /\ configFile' = delete_saved_key(configFile)
  /\ store' = [store EXCEPT !.ops = Append(@, StoreOp("clear", <<>>))]
  /\ UNCHANGED <<apiKey, defaultKeyFile, disk, pc, req, loc, result, sent, stages, tape>>

\* load_api_key()
StoreLoad ==
  /\ Len(store.ops) < MaxOps
  /\ store' = [ops |-> Append(store.ops, StoreOp("load", <<>>)),
               loaded |-> load_api_key(configFile)]
  /\ UNCHANGED <<apiKey, configFile, defaultKeyFile, disk, pc, req, loc, result, sent,
                 stages, tape>>

NextStore == StoreSave \/ StoreClear \/ StoreLoad

SpecStore == Init /\ [][NextStore]_vars

\* ------------------------------------------------------------- termination
\* The loop over response.iter_content has no bound of its own: it runs as
\* long as chunks arrive, each within the read timeout.  Past MaxChunks the
\* model stops counting bytes and keeps only the parity of the chunk count.
ChunkBeyond(p, W) ==
  /\ pc[p] = "stream"
  /\ loc[p].chunks >= MaxChunks
  /\ \E n \in W.chunks :
       loc' = [loc EXCEPT ![p].chunks = IF @ = MaxChunks THEN MaxChunks + 1 ELSE MaxChunks]
  /\ UNCHANGED <<apiKey, configFile, defaultKeyFile, store, tape, disk, pc, req, result,
                 sent, stages>>

NextLive == Invocation(1, SmallWorld) \/ ChunkBeyond(1, SmallWorld)

\* the invocation is never suspended for ever: each network call answers,
\* delivers its next chunk or hits its timeout
SpecLive == Init /\ [][NextLive]_vars /\ WF_vars(NextLive)

\* ------------------------------------------------------------ side by side
\* The interactive entry point (invocation 1) and the endpoint
\* (invocation 2) are given the same request, the same responses and the
\* same file system: what the registry, the file host and the file system
\* present is put on the tape once and read by both.
StreamEvent(ev, n, ok, exc) == [ev |-> ev, n |-> n, ok |-> ok, exc |-> exc]

StreamEvents ==
  {StreamEvent("chunk", n, TRUE, "none") : n \in World.chunks}
    \cup {StreamEvent("chunk", n, FALSE, "none") : n \in World.chunks \ {0}}
    \cup {StreamEvent("exc", 0, TRUE, e) : e \in World.streamexc}
    \cup {StreamEvent("end", 0, TRUE, "none")}

\* the stream event invocation p is at
HasEv(p) == pc[p] = "stream" /\ loc[p].chunks < Len(tape.events)
Ev(p) == tape.events[loc[p].chunks + 1]

\* the environment decides the next input of the first run
Offer ==
  /\ \/ /\ pc[1] = "idle" /\ tape.urls = {}
        /\ \E u \in World.urls, k \in World.keys :
             tape' = [tape EXCEPT !.urls = {u}, !.keys = {k},
                                  !.disk0 = disk, !.config0 = configFile]
     \/ /\ pc[1] = "resolve" /\ ExtractPlan(req[1].url) = "lookup" /\ tape.lookup = {}
        /\ \E r \in World.lookup : tape' = [tape EXCEPT !.lookup = {r}]
     \/ /\ pc[1] = "fetch" /\ tape.info = {}
        /\ \E r \in World.info : tape' = [tape EXCEPT !.info = {r}]
     \/ /\ pc[1] = "prepare" /\ loc[1].model_info = "ok" /\ tape.dirok = {}
        /\ \E ok \in World.fsok : tape' = [tape EXCEPT !.dirok = {ok}]
     \/ /\ pc[1] = "request" /\ tape.dl = {}
        /\ \E r \in World.dl : tape' = [tape EXCEPT !.dl = {r}]
     \/ /\ pc[1] = "open" /\ tape.openok = {}
        /\ \E ok \in World.fsok : tape' = [tape EXCEPT !.openok = {ok}]
     \/ /\ pc[1] = "stream" /\ Len(tape.events) = loc[1].chunks
        /\ \E ev \in StreamEvents :
             /\ ev.ev = "chunk" => loc[1].chunks < MaxChunks
             /\ tape' = [tape EXCEPT !.events = Append(@, ev)]
  /\ UNCHANGED <<apiKey, configFile, defaultKeyFile, disk, pc, req, loc, result, sent,
                 stages, store>>

\* what the tape presents to invocation p at its current step
TapeWorld(p) ==
  [eps |-> {IF p = 1 THEN "ui" ELSE "api"},
   urls |-> tape.urls,
   keys |-> tape.keys,
   lookup |-> tape.lookup,
   info |-> tape.info,
   dl |-> tape.dl,
   chunks |-> IF HasEv(p) /\ Ev(p).ev = "chunk" THEN {Ev(p).n} ELSE {},
   streamexc |-> IF HasEv(p) /\ Ev(p).ev = "exc" THEN {Ev(p).exc} ELSE {},
   fsok |-> IF pc[p] = "prepare" THEN tape.dirok
            ELSE IF pc[p] = "open" THEN tape.openok
            ELSE IF HasEv(p) /\ Ev(p).ev = "chunk" THEN {Ev(p).ok} ELSE {}]

PairStep(p) ==
  \/ Begin(p, TapeWorld(p))
  \/ Credential(p)
  \/ Resolve(p, TapeWorld(p))
  \/ Fetch(p, TapeWorld(p))
  \/ Prepare(p, TapeWorld(p))
  \/ Request(p, TapeWorld(p))
  \/ Open(p, TapeWorld(p))
  \/ Chunk(p, TapeWorld(p))
  \/ StreamError(p, TapeWorld(p))
  \/ (HasEv(p) /\ Ev(p).ev = "end" /\ EndStream(p))

\* the first run is over: its destination file is noted and the files are
\* put back as the first run found them
Handover ==
  /\ pc[1] = "done" /\ ~tape.handed
  /\ tape' = [tape EXCEPT !.handed = TRUE, !.disk1 = disk]
  /\ disk' = tape.disk0
  /\ configFile' = tape.config0
  /\ UNCHANGED <<apiKey, defaultKeyFile, pc, req, loc, result, sent, stages, store>>

NextPair == Offer \/ PairStep(1) \/ Handover \/ (tape.handed /\ PairStep(2))

SpecPair == Init /\ [][NextPair]_vars

\* ----------------------------------------------------------------- claims
Terminated(p) == pc[p] = "done"

\* resolution succeeded and the invocation went on
PastResolve(p) == Len(stages[p]) >= 3 /\ stages[p][3] = "FetchingMetadata"

Requests(p) == [i \in DOMAIN sent[p] |-> sent[p][i].req]

Count(p, kind) == Cardinality({i \in DOMAIN sent[p] : sent[p][i].req = kind})

\* C1: when an invocation of either entry point has terminated, the
\* destination path holds a completely written file of non-zero size or no
\* file at all.
C1_NoPartialFile ==
  \A p \in Procs : Terminated(p) => (~disk.exists \/ (disk.full /\ disk.size > 0))

\* the connection is lost after bytes were written, and the file is gone
C1_Witness ==
  /\ Terminated(1)
  /\ loc[1].raised = "ConnectionError"
  /\ loc[1].downloaded > 0
  /\ ~disk.exists

\* C2: no invocation of either entry point ends with an exception
\* propagating to its caller.
C2_NeverRaises ==
  \A p \in Procs : Terminated(p) => result[p] # Raised

\* the credential the specification prescribes: the supplied token trimmed,
\* else the stored token, else the default token, else none
C3_Prescribed(p) ==
  LET k == req[p].api_key
      d == load_default_api_key(defaultKeyFile)
  IN IF Truthy(k) /\ Strip(k) # <<>> THEN Strip(k)
     ELSE IF loc[p].stored_at_start # <<>> THEN loc[p].stored_at_start
     ELSE d

\* C3: every outbound request of an invocation carries the credential
\* chosen in the order supplied token, stored token, default token, none.
C3_CredentialOrder ==
  \A p \in Procs : \A i \in DOMAIN sent[p] : sent[p][i].cred = C3_Prescribed(p)

\* C4: after the credential step, an interactive invocation with a
\* non-empty supplied token has stored exactly that trimmed token, one with
\* an empty supplied token has left no stored record, and the endpoint has
\* left the record as it was.
C4_StoredOnlyFromUser ==
  \A p \in Procs :
    pc[p] \notin {"idle", "credential"} =>
      LET k == req[p].api_key
          supplied == IF Truthy(k) THEN Strip(k) ELSE <<>>
      IN IF req[p].ep = "ui"
         THEN IF supplied # <<>>
              THEN configFile.exists /\ load_api_key(configFile) = supplied
              ELSE ~configFile.exists
         ELSE load_api_key(configFile) = loc[p].stored_at_start

\* C5: every outbound request of an invocation carries the credential that
\* the same invocation resolved at its start.
C5_OwnCredential ==
  \A p \in Procs :
    pc[p] \notin {"idle", "credential"} =>
      \A i \in DOMAIN sent[p] : sent[p][i].cred = BearerOf(loc[p].key_resolved)

StageOrder == <<"Idle", "ResolvingReference", "FetchingMetadata", "Downloading">>

\* C6: the stages are passed in the fixed order and end in Succeeded or
\* Failed, at most one lookup, one metadata and one download request are
\* made, in that order, the metadata request only after a version id was
\* resolved, the download request only after metadata with a file arrived,
\* and nothing runs after the first failure.
C6_StageMachine ==
  \A p \in Procs :
    /\ \E k \in 1..4 :
         \/ stages[p] = SubSeq(StageOrder, 1, k) /\ ~Terminated(p)
         \/ stages[p] = Append(SubSeq(StageOrder, 1, k), "Failed")
              /\ Terminated(p) /\ result[p] \notin {Succeeded, NoErr}
         \/ stages[p] = Append(StageOrder, "Succeeded")
              /\ Terminated(p) /\ result[p] = Succeeded
    /\ Requests(p) \in {<<>>, <<"lookup">>, <<"metadata">>, <<"lookup", "metadata">>,
                        <<"metadata", "download">>, <<"lookup", "metadata", "download">>}
    /\ Count(p, "lookup") = 1 => Len(stages[p]) >= 2
    /\ Count(p, "metadata") = 1 =>
         /\ IsNumeral(loc[p].version_id)
         /\ Len(stages[p]) >= 3 /\ stages[p][3] = "FetchingMetadata"
         /\ loc[p].lookup # NoLookup => get_latest_version_id(loc[p].lookup)[2] = NoErr
    /\ Count(p, "download") = 1 =>
         /\ loc[p].info.exc = "none" /\ loc[p].info.status = 200 /\ loc[p].info.body = "ok"
         /\ Len(stages[p]) >= 4 /\ stages[p][4] = "Downloading"

\* a download that failed after all three requests, each made once
C6_Witness ==
  /\ Terminated(1)
  /\ Requests(1) = <<"lookup", "metadata", "download">>
  /\ stages[1] = Append(StageOrder, "Failed")

\* the classification the specification's table gives a registry response
C7_Table(r) ==
  IF r.exc = "Timeout" THEN {Err("TimeoutError", 0)}
  ELSE IF r.exc = "ConnectionError" THEN {Err("NetworkError", 0)}
  ELSE IF r.exc # "none" THEN {Err("UnknownError", 0)}
  ELSE IF r.status = 401 THEN {Err("AuthError", 0)}
  ELSE IF r.status = 403 THEN {Err("ForbiddenError", 0)}
  ELSE IF r.status = 404 THEN {Err("NotFoundError", 0)}
  ELSE IF r.status = 429 THEN {Err("RateLimited", 0)}
  ELSE {Err("ServerError", r.status)}

\* C7: a registry call (lookup or metadata) answered with a status other
\* than 200, a timeout or a connection failure ends the invocation with the
\* classification of the table, ServerError carrying the status.
C7_RegistryClassification ==
  \A p \in Procs :
    /\ (Count(p, "lookup") = 1 /\ (loc[p].lookup.exc # "none" \/ loc[p].lookup.status # 200)) =>
         Terminated(p) /\ result[p] \in C7_Table(loc[p].lookup) /\ Count(p, "metadata") = 0
    /\ (Count(p, "metadata") = 1 /\ (loc[p].info.exc # "none" \/ loc[p].info.status # 200)) =>
         Terminated(p) /\ result[p] \in C7_Table(loc[p].info) /\ Count(p, "download") = 0

\* the metadata call answered 403
C7_Witness ==
  /\ Terminated(1)
  /\ Count(1, "metadata") = 1
  /\ loc[1].info.status = 403
  /\ result[1] = Err("ForbiddenError", 0)

\* position of a version parameter / model path followed by a digit
C8_Has(lit, url) == \E i \in 1..(Len(url) - 1) : url[i] = lit /\ url[i + 1] \in Digits

\* C8: a url with modelVersionId=<n> resolves to <n> without a lookup call,
\* even when it also has a model path; a url with only a model path makes
\* exactly one lookup call and resolves to the id of the first entry of the
\* returned list, NoVersionsError when the list is empty; any other input
\* fails with InvalidReference without a call.
C8_Resolution ==
  \A p \in Procs :
    pc[p] \notin {"idle", "credential", "resolve"} =>
      LET url == req[p].url
      IN IF C8_Has(VersionParam, url)
         THEN /\ Count(p, "lookup") = 0
              /\ PastResolve(p)
              /\ loc[p].version_id = ReSearch(VersionParam, url)
              /\ url = <<ModelPath, "7", "?", VersionParam, "1", "2">> =>
                   loc[p].version_id = <<"1", "2">>
         ELSE IF C8_Has(ModelPath, url)
         THEN /\ Count(p, "lookup") = 1
              /\ (loc[p].lookup.exc = "none" /\ loc[p].lookup.status = 200) =>
                   LET l == loc[p].lookup.body.list
                   IN IF l = <<>>
                      THEN Terminated(p) /\ result[p] = Err("NoVersionsError", 0)
                      ELSE l[1].hasId => /\ loc[p].version_id = Str(l[1].id)
                                         /\ l[1].id = 12 => loc[p].version_id = <<"1", "2">>
                                         /\ result[p].kind # "NoVersionsError"
         ELSE /\ Count(p, "lookup") = 0
              /\ Terminated(p)
              /\ result[p] = Err("InvalidReference", 0)

\* a model-page url resolved through one lookup to the first listed version
C8_Witness ==
  /\ pc[1] = "fetch"
  /\ req[1].url = <<ModelPath, "7">>
  /\ Requests(1) = <<"lookup">>
  /\ loc[1].version_id = <<"1", "2">>

\* C9: a download response with a status outside 2xx ends the invocation
\* in failure with nothing written; statuses other than 401/403/404/429 are
\* surfaced as ServerError.
C9_NonSuccessStatusFails ==
  \A p \in Procs :
    (Terminated(p) /\ Count(p, "download") = 1 /\ loc[p].dl.exc = "none"
       /\ (loc[p].dl.status < 200 \/ loc[p].dl.status >= 300)) =>
      /\ result[p].kind \notin {"Succeeded", "None"}
      /\ loc[p].downloaded = 0
      /\ ~DownloadAbort(loc[p].dl.status) => result[p] = Err("ServerError", loc[p].dl.status)

\* C10: an exception raised by the download request or while writing
\* chunks removes the file and is reported with the classification of its
\* cause: Timeout as TimeoutError, ConnectionError as NetworkError, OSError
\* as IOError.
C10_ExceptionClassified ==
  \A p \in Procs :
    (Terminated(p) /\ loc[p].raised # "none") =>
      /\ ~disk.exists
      /\ result[p].kind \notin {"Succeeded", "None", "Raised"}
      /\ loc[p].raised = "Timeout" => result[p] = Err("TimeoutError", 0)
      /\ loc[p].raised = "ConnectionError" => result[p] = Err("NetworkError", 0)
      /\ loc[p].raised = "OSError" => result[p] = Err("IOError", 0)

\* C11: when the download stream answered with status 200 completes with
\* zero bytes written, the empty file is removed and the outcome is
\* EmptyFileError; success is returned only with a file of non-zero size at
\* the destination path.
C11_EmptyFileRemoved ==
  \A p \in Procs :
    /\ (Terminated(p) /\ Count(p, "download") = 1 /\ loc[p].dl.exc = "none"
          /\ loc[p].dl.status = 200 /\ loc[p].raised = "none" /\ loc[p].downloaded = 0) =>
         result[p] = Err("EmptyFileError", 0) /\ ~disk.exists
    /\ (Terminated(p) /\ result[p] = Succeeded) =>
         disk.exists /\ disk.size > 0 /\ disk.size = loc[p].downloaded

\* a stream of empty chunks only
C11_Witness ==
  /\ Terminated(1)
  /\ loc[1].dl.status = 200
  /\ loc[1].chunks = MaxChunks
  /\ loc[1].downloaded = 0
  /\ result[1] = Err("EmptyFileError", 0)
  /\ ~disk.exists

\* C12: every progress value the interactive entry point reports after a
\* chunk lies in the interval [0,1].
C12_ProgressInUnitInterval ==
  \A p \in Procs :
    /\ loc[p].progress_val.num >= 0
    /\ loc[p].progress_val.num <= loc[p].progress_val.den

\* the last save or clear among the first n operations, 0 when there is none
C13_LastWrite(n) ==
  LET w == {i \in 1..n : store.ops[i].op \in {"save", "clear"}}
  IN IF w = {} THEN 0 ELSE CHOOSE i \in w : \A j \in w : j <= i

\* C13: a load returns the token of the latest save when no clear came
\* after it, and empty when the latest write was a clear, whether or not a
\* record existed then.
C13_RoundTrip ==
  LET n == Len(store.ops)
  IN (n > 0 /\ store.ops[n].op = "load" /\ C13_LastWrite(n) > 0) =>
       LET w == store.ops[C13_LastWrite(n)]
       IN store.loaded = IF w.op = "save" THEN w.token ELSE <<>>

\* two saves, then a load that returns the second token with its blanks
C13_Witness ==
  /\ Len(store.ops) = 3
  /\ store.ops[1].op = "save"
  /\ store.ops[2] = StoreOp("save", <<" ", "b", "\n">>)
  /\ store.ops[3].op = "load"
  /\ store.loaded = <<" ", "b", "\n">>

\* C14: given the same request, default-token file, responses and file
\* system, the two entry points end with the same outcome (success or the
\* same failure classification), send the same credential with each
\* request, and agree on whether the destination file exists afterwards.
C14_SameWorkflow ==
  (tape.handed /\ Terminated(1) /\ Terminated(2)) =>
    /\ result[1] = result[2]
    /\ sent[1] = sent[2]
    /\ tape.disk1.exists = disk.exists

\* C15: an invocation that fails in the download step (exception on the
\* request, HTTP error, write error) leaves a complete file that was at the
\* destination path before it started as it was.
C15_FailureKeepsEarlierFile ==
  \A p \in Procs :
    (Terminated(p) /\ (p = 1 <=> ~tape.handed)
       /\ Count(p, "download") = 1 /\ result[p] # Succeeded
       /\ tape.disk0.exists /\ tape.disk0.full) =>
      disk = tape.disk0

\* C16: every invocation eventually terminates, in Succeeded or Failed.
C16_EventuallyTerminates == Running(1) ~> Terminated(1)

====
